---- MODULE Spec2Model ----
(***************************************************************************)
(* Model of scripts/generate_all_inshorts.py: one run of main(), which     *)
(* resolves a category list, acquires one shared browser session, runs     *)
(* process_category_with_shared_browser over the list, releases the        *)
(* session in a finally block and reports an exit code.                    *)
(*                                                                         *)
(* Every call that does I/O (browser start-up, os.makedirs, the import of  *)
(* generate_inshorts_selenium, load_news_data, process_news_data,          *)
(* save_to_json, driver.quit) either returns or raises an Exception; the   *)
(* choice is nondeterministic.  The generation_time stamp of the output    *)
(* record is a wall-clock string that no control decision reads and is     *)
(* left out of the record.                                                 *)
(***************************************************************************)
EXTENDS Integers, Sequences, FiniteSets, TLC

\* ---- bounds -------------------------------------------------------------
NumCategories == 2      \* distinct category names that exist in the world
MaxCats       == 3      \* longest resolved category list
MaxArticles   == 1      \* most articles process_news_data returns
MaxCatsLive   == 2      \* longest list in the runs checked for progress

Categories == 1..NumCategories

VARIABLES
  pc,                 \* position of the run inside main() / the processor
  args_categories,    \* args.categories; <<>> stands for "not supplied" (None)
  inputFiles,         \* categories c whose <input-dir>/news_c.json exists
  outputDir,          \* TRUE iff <output-dir> exists
  outputFiles,        \* category -> content of <output-dir>/inshorts_c.json
  categories,         \* main(): the resolved list
  driver,             \* main(): "unset", "live" (acquired) or "quit" (released)
  idx,                \* main(): position of the loop variable in categories
  success_count,      \* main(): success_count
  processed_articles, \* processor: result of process_news_data
  ret,                \* value returned by the last processor call
  raised,             \* TRUE while an exception propagates inside main()
  exit_code,          \* value returned by main(); NoExit until it returns
  \* ---- history (observation only; never read by the program) ----
  created,            \* number of sessions setup_shared_browser returned
  released,           \* number of driver.quit() invocations
  calls,              \* list positions for which the processor was called
  outcomes,           \* how each of those calls ended: "true","false","raised"
  collab,             \* TRUE iff the current call touched the collaborator
  saved,              \* TRUE iff save_to_json completed in the current call
  dirCreated,         \* TRUE iff the current call ran os.makedirs successfully
  failedAt,           \* step of the current call that raised, or "none"
  atCall,             \* output directory and files when the current call began
  atStart,            \* output directory and files when the run began
  phases              \* run phases entered so far, in order

vars == <<pc, args_categories, inputFiles, outputDir, outputFiles, categories,
          driver, idx, success_count, processed_articles, ret, raised,
          exit_code, created, released, calls, outcomes, collab, saved,
          dirCreated, failedAt, atCall, atStart, phases>>

NoExit == -1

\* All sequences over S of length lo..hi
SeqsOf(S, lo, hi) == UNION {[1..n -> S] : n \in lo..hi}

\* Content of an output file
NoFile == [state |-> "absent", source_file |-> 0, total_articles |-> 0,
           articles |-> <<>>]

\* A file left behind by an earlier run
OldFile == [state |-> "complete", source_file |-> 0, total_articles |-> 1,
            articles |-> <<0>>]

\* A file whose write was cut short by a failing save_to_json
PartialFile == [state |-> "partial", source_file |-> 0, total_articles |-> 0,
                articles |-> <<>>]

\* variant: total_articles counts one more than the list holds
OutputData_WrongCount(category, articles) ==
  [state |-> "complete", source_file |-> category,
   total_articles |-> Len(articles) + 1, articles |-> articles]

\* process_category_with_shared_browser: output_data built from the
\* processed articles (lines 175-182)
OutputData(category, articles) ==
  [state |-> "complete", source_file |-> category,
   total_articles |-> Len(articles), articles |-> articles]

\* get_available_categories: one category per news_*.json file found by
\* glob, in the (arbitrary) order glob returns them
get_available_categories(files) ==
  {s \in SeqsOf(files, Cardinality(files), Cardinality(files)) :
     \A i, j \in 1..Len(s) : i # j => s[i] # s[j]}

\* main(): the final comparison success_count == len(categories)
ReportCode(count, cats) == IF count = Len(cats) THEN 0 ELSE 1

\* Run phase a program position belongs to
PhaseOf(p) ==
  CASE p = "parse_args" -> "Configuring"
    [] p \in {"resolve", "check_empty"} -> "Discovering"
    [] p = "setup"      -> "SessionStarting"
    [] p \in {"for", "exists", "makedirs", "import", "load", "process",
              "save", "return_true", "handler", "after_call"} -> "Processing"
    [] p = "finally"    -> "SessionClosing"
    [] OTHER            -> "Reporting"

\* history: record the phase entered by a move to position p
Enter(p) ==
  phases' = IF PhaseOf(p) # phases[Len(phases)]
            THEN Append(phases, PhaseOf(p)) ELSE phases

\* What the run may find under <output-dir>: no directory, an empty
\* directory, or the files an earlier run over every category left there
InitialOutputs ==
  {[dir |-> FALSE, files |-> [c \in Categories |-> NoFile]],
   [dir |-> TRUE,  files |-> [c \in Categories |-> NoFile]],
   [dir |-> TRUE,  files |-> [c \in Categories |-> OldFile]]}

Init ==
  /\ pc = "parse_args"
  /\ args_categories \in SeqsOf(Categories, 0, MaxCats)
  /\ inputFiles \in SUBSET Categories
  /\ \E fs \in InitialOutputs :
       /\ outputDir = fs.dir
       /\ outputFiles = fs.files
  /\ categories = <<>>
  /\ driver = "unset"
  /\ idx = 0
  /\ success_count = 0
  /\ processed_articles = <<>>
  /\ ret = FALSE
  /\ raised = FALSE
  /\ exit_code = NoExit
  /\ created = 0
  /\ released = 0
  /\ calls = <<>>
  /\ outcomes = <<>>
  /\ collab = FALSE
  /\ saved = FALSE
  /\ dirCreated = FALSE
  /\ failedAt = "none"
  /\ atCall = [dir |-> outputDir, files |-> outputFiles]
  /\ atStart = [dir |-> outputDir, files |-> outputFiles]
  /\ phases = <<"Configuring">>

\* ---- main(), lines 197-250 -----------------------------------------------

\* args = parse_args()
ParseArgs ==
  /\ pc = "parse_args"
  /\ pc' = "resolve"
  /\ Enter("resolve")
  /\ UNCHANGED <<args_categories, inputFiles, outputDir, outputFiles,
                 categories, driver, idx, success_count, processed_articles,
                 ret, raised, exit_code, created, released, calls, outcomes,
                 collab, saved, dirCreated, failedAt, atCall, atStart>>

\* if args.categories: categories = args.categories
\* else: categories = get_available_categories(args.input_dir)
ResolveCategories ==
  /\ pc = "resolve"
  /\ IF args_categories # <<>>
       THEN categories' = args_categories
       ELSE categories' \in get_available_categories(inputFiles)
  /\ pc' = "check_empty"
  /\ Enter("check_empty")
  /\ UNCHANGED <<args_categories, inputFiles, outputDir, outputFiles, driver,
                 idx, success_count, processed_articles, ret, raised,
                 exit_code, created, released, calls, outcomes, collab, saved,
                 dirCreated, failedAt, atCall, atStart>>

\* variant: the empty list is logged but main() does not return
NoCategories_NoReturn ==
  /\ pc = "check_empty"
  /\ categories = <<>>
  /\ pc' = "setup"
  /\ Enter("setup")
  /\ UNCHANGED <<args_categories, inputFiles, outputDir, outputFiles,
                 categories, driver, idx, success_count, processed_articles,
                 ret, raised, exit_code, created, released, calls, outcomes,
                 collab, saved, dirCreated, failedAt, atCall, atStart>>

\* if not categories: return 1
NoCategories ==
  /\ pc = "check_empty"
  /\ categories = <<>>
  /\ exit_code' = 1
  /\ pc' = "done"
  /\ Enter("done")
  /\ UNCHANGED <<args_categories, inputFiles, outputDir, outputFiles,
                 categories, driver, idx, success_count, processed_articles,
                 ret, raised, created, released, calls, outcomes, collab,
                 saved, dirCreated, failedAt, atCall, atStart>>

\* the list is not empty: go on to set up the shared browser
HaveCategories ==
  /\ pc = "check_empty"
  /\ categories # <<>>
  /\ pc' = "setup"
  /\ Enter("setup")
  /\ UNCHANGED <<args_categories, inputFiles, outputDir, outputFiles,
                 categories, driver, idx, success_count, processed_articles,
                 ret, raised, exit_code, created, released, calls, outcomes,
                 collab, saved, dirCreated, failedAt, atCall, atStart>>

\* driver = setup_shared_browser(...) returned a driver; the try block is
\* entered and success_count = 0
SetupSharedBrowserOk ==
  /\ pc = "setup"
  /\ driver' = "live"
  /\ created' = created + 1
  /\ success_count' = 0
  /\ pc' = "for"
  /\ Enter("for")
  /\ UNCHANGED <<args_categories, inputFiles, outputDir, outputFiles,
                 categories, idx, processed_articles, ret, raised, exit_code,
                 released, calls, outcomes, collab, saved, dirCreated,
                 failedAt, atCall, atStart>>

\* variant: setup_shared_browser logs the error and returns None instead
\* of re-raising, so main() enters the loop without a session
SetupSharedBrowserFail_Swallowed ==
  /\ pc = "setup"
  /\ success_count' = 0
  /\ pc' = "for"
  /\ Enter("for")
  /\ UNCHANGED <<args_categories, inputFiles, outputDir, outputFiles,
                 categories, driver, idx, processed_articles, ret, raised,
                 exit_code, created, released, calls, outcomes, collab, saved,
                 dirCreated, failedAt, atCall, atStart>>

\* setup_shared_browser logged the error and re-raised: driver is never
\* bound, the inner try is never entered, the outer except takes over
SetupSharedBrowserFail ==
  /\ pc = "setup"
  /\ raised' = TRUE
  /\ pc' = "except"
  /\ Enter("except")
  /\ UNCHANGED <<args_categories, inputFiles, outputDir, outputFiles,
                 categories, driver, idx, success_count, processed_articles,
                 ret, exit_code, created, released, calls, outcomes, collab,
                 saved, dirCreated, failedAt, atCall, atStart>>

\* variant: a category whose call returned False is passed to the
\* processor again
ForNext_RetryFailed ==
  /\ pc = "for"
  /\ idx < Len(categories) \/ (idx > 0 /\ ~ret)
  /\ idx' = IF idx > 0 /\ ~ret THEN idx ELSE idx + 1
  /\ calls' = Append(calls, idx')
  /\ collab' = FALSE
  /\ saved' = FALSE
  /\ dirCreated' = FALSE
  /\ processed_articles' = <<>>
  /\ failedAt' = "none"
  /\ atCall' = [dir |-> outputDir, files |-> outputFiles]
  /\ pc' = "exists"
  /\ Enter("exists")
  /\ UNCHANGED <<args_categories, inputFiles, outputDir, outputFiles,
                 categories, driver, success_count, ret, raised, exit_code,
                 created, released, outcomes, atStart>>

\* for category in categories: the next element, if any, is passed to
\* process_category_with_shared_browser
ForNext ==
  /\ pc = "for"
  /\ idx < Len(categories)
  /\ idx' = idx + 1
  /\ calls' = Append(calls, idx + 1)
  /\ collab' = FALSE
  /\ saved' = FALSE
  /\ dirCreated' = FALSE
  /\ processed_articles' = <<>>
  /\ failedAt' = "none"
  /\ atCall' = [dir |-> outputDir, files |-> outputFiles]
  /\ pc' = "exists"
  /\ Enter("exists")
  /\ UNCHANGED <<args_categories, inputFiles, outputDir, outputFiles,
                 categories, driver, success_count, ret, raised, exit_code,
                 created, released, outcomes, atStart>>

\* the list is exhausted: the try block ends normally
ForDone ==
  /\ pc = "for"
  /\ idx >= Len(categories)
  /\ pc' = "finally"
  /\ Enter("finally")
  /\ UNCHANGED <<args_categories, inputFiles, outputDir, outputFiles,
                 categories, driver, idx, success_count, processed_articles,
                 ret, raised, exit_code, created, released, calls, outcomes,
                 collab, saved, dirCreated, failedAt, atCall, atStart>>

\* variant: the browser is closed after each category
AfterCall_QuitPerCategory ==
  /\ pc = "after_call"
  /\ success_count' = IF ret THEN success_count + 1 ELSE success_count
  /\ driver' = "quit"
  /\ released' = released + 1
  /\ pc' = "for"
  /\ Enter("for")
  /\ UNCHANGED <<args_categories, inputFiles, outputDir, outputFiles,
                 categories, idx, processed_articles, ret, raised, exit_code,
                 created, calls, outcomes, collab, saved, dirCreated,
                 failedAt, atCall, atStart>>

\* if process_category_with_shared_browser(...): success_count += 1
AfterCall ==
  /\ pc = "after_call"
  /\ success_count' = IF ret THEN success_count + 1 ELSE success_count
  /\ pc' = "for"
  /\ Enter("for")
  /\ UNCHANGED <<args_categories, inputFiles, outputDir, outputFiles,
                 categories, driver, idx, processed_articles, ret, raised,
                 exit_code, created, released, calls, outcomes, collab, saved,
                 dirCreated, failedAt, atCall, atStart>>

\* variant: driver.quit() follows the loop without a finally block, so it
\* is skipped when an exception leaves the loop
Finally_QuitOnlyOnNormalExit ==
  /\ pc = "finally"
  /\ IF raised
       THEN /\ UNCHANGED <<driver, released, raised>>
            /\ pc' = "except"
            /\ Enter("except")
       ELSE /\ driver' = "quit"
            /\ released' = released + 1
            /\ \E quitRaises \in BOOLEAN :
                 /\ raised' = quitRaises
                 /\ pc' = IF quitRaises THEN "except" ELSE "report"
                 /\ Enter(IF quitRaises THEN "except" ELSE "report")
  /\ UNCHANGED <<args_categories, inputFiles, outputDir, outputFiles,
                 categories, idx, success_count, processed_articles, ret,
                 exit_code, created, calls, outcomes, collab, saved,
                 dirCreated, failedAt, atCall, atStart>>

\* finally: driver.quit().  The call returns or raises; after it the
\* pending exception, if any, goes on to the outer except
Finally ==
  /\ pc = "finally"
  /\ driver' = "quit"
  /\ released' = released + 1
  /\ \E quitRaises \in BOOLEAN :
       /\ raised' = (raised \/ quitRaises)
       /\ pc' = IF raised \/ quitRaises THEN "except" ELSE "report"
       /\ Enter(IF raised \/ quitRaises THEN "except" ELSE "report")
  /\ UNCHANGED <<args_categories, inputFiles, outputDir, outputFiles,
                 categories, idx, success_count, processed_articles, ret,
                 exit_code, created, calls, outcomes, collab, saved,
                 dirCreated, failedAt, atCall, atStart>>

\* return 0 if success_count == len(categories) else 1
Report ==
  /\ pc = "report"
  /\ exit_code' = ReportCode(success_count, categories)
  /\ pc' = "done"
  /\ Enter("done")
  /\ UNCHANGED <<args_categories, inputFiles, outputDir, outputFiles,
                 categories, driver, idx, success_count, processed_articles,
                 ret, raised, created, released, calls, outcomes, collab,
                 saved, dirCreated, failedAt, atCall, atStart>>

\* except Exception: log, return 1
TopLevelExcept ==
  /\ pc = "except"
  /\ raised' = FALSE
  /\ exit_code' = 1
  /\ pc' = "done"
  /\ Enter("done")
  /\ UNCHANGED <<args_categories, inputFiles, outputDir, outputFiles,
                 categories, driver, idx, success_count, processed_articles,
                 ret, created, released, calls, outcomes, collab, saved,
                 dirCreated, failedAt, atCall, atStart>>

\* ---- process_category_with_shared_browser, lines 141-193 ------------------

\* the category the current call was given
category == categories[idx]

\* history: the current call ended with outcome o
Ended(o) == outcomes' = Append(outcomes, o)

\* if not os.path.exists(input_file): warn, return False
InputMissing ==
  /\ pc = "exists"
  /\ category \notin inputFiles
  /\ ret' = FALSE
  /\ Ended("false")
  /\ pc' = "after_call"
  /\ UNCHANGED <<args_categories, inputFiles, outputDir, outputFiles,
                 categories, driver, idx, success_count, processed_articles,
                 raised, exit_code, created, released, calls, collab, saved,
                 dirCreated, failedAt, atCall, atStart, phases>>

\* the input file exists: go on
InputPresent ==
  /\ pc = "exists"
  /\ category \in inputFiles
  /\ pc' = "makedirs"
  /\ UNCHANGED <<args_categories, inputFiles, outputDir, outputFiles,
                 categories, driver, idx, success_count, processed_articles,
                 ret, raised, exit_code, created, released, calls, outcomes,
                 collab, saved, dirCreated, failedAt, atCall, atStart,
                 phases>>

\* os.makedirs(output_dir, exist_ok=True) returned
MakeDirsOk ==
  /\ pc = "makedirs"
  /\ outputDir' = TRUE
  /\ dirCreated' = TRUE
  /\ pc' = "import"
  /\ UNCHANGED <<args_categories, inputFiles, outputFiles, categories, driver,
                 idx, success_count, processed_articles, ret, raised,
                 exit_code, created, released, calls, outcomes, collab, saved,
                 failedAt, atCall, atStart, phases>>

\* variant: the exception of os.makedirs goes straight to the outer except
\* of main(), as it would without the inner try/finally
MakeDirsRaise_NoFinally ==
  /\ pc = "makedirs"
  /\ raised' = TRUE
  /\ Ended("raised")
  /\ pc' = "except"
  /\ Enter("except")
  /\ UNCHANGED <<args_categories, inputFiles, outputDir, outputFiles,
                 categories, driver, idx, success_count, processed_articles,
                 ret, exit_code, created, released, calls, collab, saved,
                 dirCreated, failedAt, atCall, atStart>>

\* os.makedirs raised (the path is a file, permission denied, ...).  The
\* call stands before the try block of the processor, so the exception
\* leaves the processor and unwinds main()'s loop into its finally block
MakeDirsRaise ==
  /\ pc = "makedirs"
  /\ raised' = TRUE
  /\ Ended("raised")
  /\ pc' = "finally"
  /\ Enter("finally")
  /\ UNCHANGED <<args_categories, inputFiles, outputDir, outputFiles,
                 categories, driver, idx, success_count, processed_articles,
                 ret, exit_code, created, released, calls, collab, saved,
                 dirCreated, failedAt, atCall, atStart>>

\* from generate_inshorts_selenium import ... ; returns or raises
ImportCollaborator ==
  /\ pc = "import"
  /\ collab' = TRUE
  /\ \E ok \in BOOLEAN :
       /\ pc' = IF ok THEN "load" ELSE "handler"
       /\ failedAt' = IF ok THEN "none" ELSE "import"
  /\ UNCHANGED <<args_categories, inputFiles, outputDir, outputFiles,
                 categories, driver, idx, success_count, processed_articles,
                 ret, raised, exit_code, created, released, calls, outcomes,
                 saved, dirCreated, atCall, atStart, phases>>

\* news_data = load_news_data(input_file); returns or raises
LoadNewsData ==
  /\ pc = "load"
  /\ \E ok \in BOOLEAN :
       /\ pc' = IF ok THEN "process" ELSE "handler"
       /\ failedAt' = IF ok THEN "none" ELSE "load"
  /\ UNCHANGED <<args_categories, inputFiles, outputDir, outputFiles,
                 categories, driver, idx, success_count, processed_articles,
                 ret, raised, exit_code, created, released, calls, outcomes,
                 collab, saved, dirCreated, atCall, atStart, phases>>

\* processed_articles = process_news_data(news_data, max_articles, driver,
\* timeout, summary_length); returns a list or raises
ProcessNewsData ==
  /\ pc = "process"
  /\ \/ /\ \E n \in 0..MaxArticles : processed_articles' = [k \in 1..n |-> k]
        /\ UNCHANGED failedAt
        /\ pc' = "save"
     \/ /\ UNCHANGED processed_articles
        /\ failedAt' = "process"
        /\ pc' = "handler"
  /\ UNCHANGED <<args_categories, inputFiles, outputDir, outputFiles,
                 categories, driver, idx, success_count, ret, raised,
                 exit_code, created, released, calls, outcomes, collab, saved,
                 dirCreated, atCall, atStart, phases>>

\* what save_to_json leaves in the file when it returns
save_to_json(data) == data

\* save_to_json(output_data, output_file); returns with the record
\* written, or raises with the file untouched or cut short
SaveToJson ==
  /\ pc = "save"
  /\ \/ /\ outputFiles' = [outputFiles EXCEPT ![category] =
                 save_to_json(OutputData(category, processed_articles))]
        /\ saved' = TRUE
        /\ UNCHANGED failedAt
        /\ pc' = "return_true"
     \/ /\ outputFiles' \in {outputFiles,
                             [outputFiles EXCEPT ![category] = PartialFile]}
        /\ UNCHANGED saved
        /\ failedAt' = "save"
        /\ pc' = "handler"
  /\ UNCHANGED <<args_categories, inputFiles, outputDir, categories, driver,
                 idx, success_count, processed_articles, ret, raised,
                 exit_code, created, released, calls, outcomes, collab,
                 dirCreated, atCall, atStart, phases>>

\* return True
ReturnTrue ==
  /\ pc = "return_true"
  /\ ret' = TRUE
  /\ Ended("true")
  /\ pc' = "after_call"
  /\ UNCHANGED <<args_categories, inputFiles, outputDir, outputFiles,
                 categories, driver, idx, success_count, processed_articles,
                 raised, exit_code, created, released, calls, collab, saved,
                 dirCreated, failedAt, atCall, atStart, phases>>

\* except Exception: log the error and the trace, return False
ExceptInCategory ==
  /\ pc = "handler"
  /\ ret' = FALSE
  /\ Ended("false")
  /\ pc' = "after_call"
  /\ UNCHANGED <<args_categories, inputFiles, outputDir, outputFiles,
                 categories, driver, idx, success_count, processed_articles,
                 raised, exit_code, created, released, calls, collab, saved,
                 dirCreated, failedAt, atCall, atStart, phases>>

\* ---- the run --------------------------------------------------------------

Next ==
  \/ ParseArgs
  \/ ResolveCategories
  \/ NoCategories
  \/ HaveCategories
  \/ SetupSharedBrowserOk
  \/ SetupSharedBrowserFail
  \/ ForNext
  \/ ForDone
  \/ InputMissing
  \/ InputPresent
  \/ MakeDirsOk
  \/ MakeDirsRaise
  \/ ImportCollaborator
  \/ LoadNewsData
  \/ ProcessNewsData
  \/ SaveToJson
  \/ ReturnTrue
  \/ ExceptInCategory
  \/ AfterCall
  \/ Finally
  \/ Report
  \/ TopLevelExcept

Spec == Init /\ [][Next]_vars

\* The runs checked for progress: lists of at most MaxCatsLive categories
InitLive ==
  /\ Init
  /\ Len(args_categories) <= MaxCatsLive
  /\ args_categories = <<>> => Cardinality(inputFiles) <= MaxCatsLive

\* A call that was started returns or raises, and the interpreter takes the
\* next step of a sequential program
FairSpec == InitLive /\ [][Next]_vars /\ WF_vars(Next)

TypeOK ==
  /\ idx \in 0..Len(categories)
  /\ success_count \in 0..Len(categories)
  /\ driver \in {"unset", "live", "quit"}
  /\ exit_code \in {NoExit, 0, 1}

\* ---- vocabulary of the properties -----------------------------------------

\* positions of process_category_with_shared_browser
ProcessorPcs == {"exists", "makedirs", "import", "load", "process", "save",
                 "return_true", "handler"}

InProcessor == pc \in ProcessorPcs

\* main() has returned
Returned == pc = "done"

\* setup_shared_browser returned a driver in this run
Acquired == created >= 1

\* setup_shared_browser was called and raised
SetupFailed ==
  /\ \E i \in 1..Len(phases) : phases[i] = "SessionStarting"
  /\ pc # "setup"
  /\ created = 0

\* number of calls of the processor that did not return True
Failures == Cardinality({i \in 1..Len(outcomes) : outcomes[i] # "true"})

\* list positions whose input file is absent
AbsentPositions == {i \in 1..Len(categories) : categories[i] \notin inputFiles}

\* ---- C1 -------------------------------------------------------------------
\* C1: in a run that acquired the session, driver.quit has been invoked
\* exactly once by the time main() returns its exit code, whether the loop
\* completed (with any number of failed categories) or an exception escaped
\* the processor; and no run creates or releases the session more than once.
C1_ReleasedExactlyOnce ==
  /\ created <= 1
  /\ released <= 1
  /\ (exit_code # NoExit /\ Acquired) => released = 1
  /\ (exit_code # NoExit) => Returned

\* a run that returned after an exception escaped the processor, with the
\* session released once
C1_Witness ==
  /\ Returned
  /\ Acquired
  /\ released = 1
  /\ \E i \in 1..Len(outcomes) : outcomes[i] = "raised"
  /\ \E i \in 1..Len(outcomes) : outcomes[i] = "false"

\* ---- C2 -------------------------------------------------------------------
\* C2: a run that acquired the session calls the processor for all N
\* categories, whatever number k of them fail, and returns 0 iff k = 0.
C2_AllAttemptedExitIffNoFailure ==
  (Returned /\ Acquired) =>
     /\ Len(calls) = Len(categories)
     /\ Len(outcomes) = Len(categories)
     /\ (exit_code = 0 <=> Failures = 0)

\* ---- C3 -------------------------------------------------------------------
\* C3: every call of the processor ends by returning a boolean; no failure
\* of one of its steps propagates to main().
C3_ProcessorNeverRaises ==
  /\ \A i \in 1..Len(outcomes) : outcomes[i] \in {"true", "false"}
  /\ (pc = "after_call") => Len(outcomes) = Len(calls)

\* ---- C4 -------------------------------------------------------------------
\* C4: when setup_shared_browser fails, the processor is called for no
\* category, no output file is written, driver.quit is not invoked and
\* main() returns 1.
C4_SetupFailureAborts ==
  SetupFailed =>
     /\ calls = <<>>
     /\ outputFiles = atStart.files
     /\ outputDir = atStart.dir
     /\ released = 0
     /\ driver = "unset"
     /\ pc \in {"except", "done"}
     /\ Returned => exit_code = 1

\* a run that returned after the session failed to start
C4_Witness == SetupFailed /\ Returned /\ exit_code = 1

\* ---- C6 -------------------------------------------------------------------
\* C6: with an empty resolved list main() returns 1 at once: no session is
\* acquired or released and no category is processed.
C6_EmptyListReturnsOne ==
  (categories = <<>> /\ pc \notin {"parse_args", "resolve"}) =>
     /\ pc \in {"check_empty", "done"}
     /\ created = 0
     /\ released = 0
     /\ driver = "unset"
     /\ calls = <<>>
     /\ outputFiles = atStart.files
     /\ Returned => exit_code = 1
     /\ \A i \in 1..Len(phases) : phases[i] \in {"Configuring", "Discovering",
                                                 "Reporting"}

\* a run that returned on an empty list found by discovery
C6_Witness ==
  /\ Returned
  /\ categories = <<>>
  /\ args_categories = <<>>
  /\ inputFiles = {}
  /\ exit_code = 1

\* ---- C5 -------------------------------------------------------------------
\* C5: a call for a category whose input file is absent returns False
\* without touching the collaborator, the output directory or any output
\* file; every category of the run is still attempted and the run returns 1.
C5_MissingInputIsolated ==
  /\ (pc = "after_call" /\ category \notin inputFiles) =>
        /\ ret = FALSE
        /\ ~collab
        /\ ~dirCreated
        /\ outputDir = atCall.dir
        /\ outputFiles = atCall.files
  /\ \A i \in AbsentPositions : i <= Len(outcomes) => outcomes[i] = "false"
  /\ (Returned /\ \E i \in AbsentPositions : i <= Len(outcomes)) =>
        /\ Len(calls) = Len(categories)
        /\ Len(outcomes) = Len(categories)
        /\ exit_code = 1

\* ---- C7 -------------------------------------------------------------------
\* C7: the processor is called for the list positions 1, 2, ... in that
\* order, each at most once; the call for a position has ended, and the file
\* of a successful call is completely written, when the next call begins.
C7_InOrderOneAtATime ==
  /\ Len(calls) = idx
  /\ idx <= Len(categories)
  /\ \A i \in 1..Len(calls) : calls[i] = i
  /\ Len(outcomes) = IF InProcessor THEN Len(calls) - 1 ELSE Len(calls)
  /\ (pc = "exists" /\ idx > 1 /\ outcomes[idx - 1] = "true") =>
        /\ outputFiles[categories[idx - 1]].state = "complete"
        /\ outputFiles[categories[idx - 1]].source_file = categories[idx - 1]
  /\ (pc = "exists" /\ idx > 1) => outcomes[idx - 1] \in {"true", "false"}

\* the third call begins after a failed first call and a successful second
C7_Witness ==
  /\ pc = "exists"
  /\ idx = 3
  /\ outcomes = <<"false", "true">>
  /\ calls = <<1, 2, 3>>

\* ---- C9 -------------------------------------------------------------------
\* C9: the processor returns True only after save_to_json completed in the
\* same call, and the saved record has total_articles = len(articles); when
\* load_news_data or process_news_data raises, the call returns False and
\* the output files are as they were when the call began.
C9_TrueOnlyAfterSave ==
  /\ (pc = "return_true" \/ (pc = "after_call" /\ ret)) =>
        /\ saved
        /\ failedAt = "none"
        /\ outputFiles[category].state = "complete"
        /\ outputFiles[category].articles = processed_articles
        /\ outputFiles[category].total_articles =
             Len(outputFiles[category].articles)
  /\ (pc \in {"handler", "after_call"} /\ failedAt \in {"load", "process"}) =>
        /\ ~saved
        /\ outputFiles = atCall.files
        /\ (pc = "after_call") => ret = FALSE

\* a call that replaced an older file by a record with articles returned True
C9_Witness ==
  /\ pc = "after_call"
  /\ ret
  /\ saved
  /\ atCall.files[category] = OldFile
  /\ outputFiles[category].total_articles = MaxArticles
  /\ MaxArticles > 0

\* ---- C10 ------------------------------------------------------------------
\* C10: the processor (and so the collaborator) runs only between a
\* successful setup_shared_browser and driver.quit; after the release no
\* category is processed; a session that was not acquired is never released.
C10_UsedOnlyWhileLive ==
  /\ InProcessor => driver = "live"
  /\ (pc = "after_call" \/ pc = "for") => driver = "live"
  /\ released >= 1 =>
        /\ created >= 1
        /\ driver = "quit"
        /\ pc \in {"report", "except", "done"}
  /\ driver = "unset" => (calls = <<>> /\ released = 0)
  /\ driver = "quit" => ~InProcessor

\* the collaborator is about to use the live session for a second category
C10_Witness ==
  /\ pc = "process"
  /\ idx = 2
  /\ driver = "live"
  /\ collab

\* ---- C8 -------------------------------------------------------------------
\* phase changes a run may make
AllowedPhaseSteps ==
  {<<"Configuring", "Discovering">>,
   <<"Discovering", "SessionStarting">>,
   <<"Discovering", "Reporting">>,
   <<"SessionStarting", "Processing">>,
   <<"SessionStarting", "Reporting">>,
   <<"Processing", "SessionClosing">>,
   <<"SessionClosing", "Reporting">>}

FullPhaseOrder == <<"Configuring", "Discovering", "SessionStarting",
                    "Processing", "SessionClosing", "Reporting">>

PhaseOrderOK ==
  /\ phases[Len(phases)] = PhaseOf(pc)
  /\ \A i \in 1..(Len(phases) - 1) :
        <<phases[i], phases[i + 1]>> \in AllowedPhaseSteps
  /\ \A i, j \in 1..Len(phases) : i # j => phases[i] # phases[j]
  /\ (Len(phases) >= 3 /\ phases[2] = "Discovering" /\ phases[3] = "Reporting")
        => (categories = <<>> /\ exit_code = 1)
  /\ (Len(phases) >= 4 /\ phases[3] = "SessionStarting"
      /\ phases[4] = "Reporting") => SetupFailed
  /\ Returned =>
        /\ exit_code \in {0, 1}
        /\ exit_code = 0 => phases = FullPhaseOrder
  /\ ~Returned => exit_code = NoExit

====
